---- MODULE Spec2Model ----
(***************************************************************************)
(* MaliOptimizationBarrierPass (source/opt/mali_optimization_barrier_pass) *)
(* as a state machine.  A module is a list of functions, each a list of    *)
(* basic blocks, each a list of instructions.  Process() scans them and    *)
(* guards every OpShiftLeftLogical whose shift amount is a declared        *)
(* integer (or integer vector) constant by an OpBitFieldInsert no-op.      *)
(* One action is one step of the scan loops of Process().                  *)
(***************************************************************************)
EXTENDS Integers, Sequences, FiniteSets, TLC

\* ------------------------------------------------------------------ bounds
\* Largest number of body instructions (terminators not counted) in a module.
MaxInsts == 2
\* Largest number of consecutive invocations of Process() on one module.
MaxRuns == 2

\* --------------------------------------------------------------- IR model
\* IRContext's default limit on the id bound (kDefaultMaxIdBound, 0x3FFFFF).
kDefaultMaxIdBound == 4194303

\* analysis::Type variants the pass distinguishes (AsInteger / AsVector).
IntegerType(w, s) == [kind |-> "Integer", width |-> w, signed |-> s, elem |-> 0, count |-> 0]
VectorType(e, n) == [kind |-> "Vector", width |-> 0, signed |-> FALSE, elem |-> e, count |-> n]
FloatType(w) == [kind |-> "Float", width |-> w, signed |-> FALSE, elem |-> 0, count |-> 0]

\* analysis::Constant: a scalar carries its literal value, a composite its
\* component ids.
ScalarConstant(t, v) == [type |-> t, value |-> v, comps |-> << >>]
CompositeConstant(t, cs) == [type |-> t, value |-> 0, comps |-> cs]

\* opt::Instruction: opcode, result type id, result id, input operands, and
\* the address of the node in the block's intrusive list.
Inst(o, t, r, ops, n) == [op |-> o, type_id |-> t, result_id |-> r, in_operands |-> ops, node |-> n]

VARIABLES
  funcs,                 \* module(): functions -> blocks -> instructions
  types,                 \* type manager: type id -> analysis::Type
  consts,                \* constant manager: constant id -> analysis::Constant
  bound,                 \* module header id bound (next id TakeNextId returns)
  max_id_bound,          \* IRContext::max_id_bound()
  next_node,             \* next fresh Instruction address (make_unique)
  pc,                    \* position in Process(): "func", "block", "inst", "done", "crash"
  fi, bi, ii,            \* func iterator, block_itr, inst_itr (1-based positions)
  modified,              \* Process() local
  scalar_modifications,  \* Process() local
  vector_modifications,  \* Process() local
  status,                \* Pass::Status returned by the last finished run
  log,                   \* messages handed to consumer() during the current run
  runs,                  \* number of invocations of Process() so far
  orig                   \* the module's functions when the current run began

vars == <<funcs, types, consts, bound, max_id_bound, next_node, pc, fi, bi, ii,
          modified, scalar_modifications, vector_modifications, status, log,
          runs, orig>>

\* ----------------------------------------------------- the input modules
\* Global section of the input modules: types, constants and OpUndef values.
InitTypes ==
  (1 :> IntegerType(32, FALSE)) @@ (2 :> IntegerType(16, TRUE)) @@
  (3 :> VectorType(1, 2)) @@ (4 :> FloatType(32)) @@ (14 :> VectorType(4, 2))

InitConsts ==
  (5 :> ScalarConstant(1, 3)) @@ (6 :> ScalarConstant(1, 0)) @@
  (7 :> ScalarConstant(2, 1)) @@ (8 :> CompositeConstant(3, <<5, 5>>)) @@
  (9 :> ScalarConstant(4, 2))

\* Ids of global non-constant values (OpUndef): uint, uint, v2uint, short.
GlobalValues == {10, 11, 12, 13}
SetMax(S) == CHOOSE m \in S : \A x \in S : x <= m

\* A type id no instruction declares.
UndeclaredType == SetMax(DOMAIN InitTypes \cup GlobalValues) + 1

FirstLocalId ==
  SetMax(DOMAIN InitTypes \cup DOMAIN InitConsts \cup GlobalValues \cup {UndeclaredType}) + 1

\* Instruction shapes of the input modules.  chain: the first operand is the
\* result of the preceding instruction of the block when there is one.
Kinds ==
  { [op |-> "OpShiftLeftLogical", type_id |-> 1, a |-> 10, b |-> 5, chain |-> TRUE],   \* uint << uint const
    [op |-> "OpShiftLeftLogical", type_id |-> 2, a |-> 13, b |-> 7, chain |-> FALSE],  \* short << short const
    [op |-> "OpShiftLeftLogical", type_id |-> 3, a |-> 12, b |-> 8, chain |-> FALSE],  \* v2uint << v2uint const
    [op |-> "OpShiftLeftLogical", type_id |-> 1, a |-> 10, b |-> 11, chain |-> TRUE],  \* runtime amount
    [op |-> "OpShiftLeftLogical", type_id |-> 1, a |-> 10, b |-> 9, chain |-> FALSE],  \* float const amount
    [op |-> "OpIAdd", type_id |-> 1, a |-> 10, b |-> 10, chain |-> TRUE],              \* not a shift
    [op |-> "OpShiftLeftLogical", type_id |-> 3, a |-> 12, b |-> 5, chain |-> FALSE],  \* vector result, scalar amount
    [op |-> "OpShiftLeftLogical", type_id |-> 1, a |-> 10, b |-> 8, chain |-> FALSE],  \* scalar result, vector amount
    [op |-> "OpShiftLeftLogical", type_id |-> 4, a |-> 10, b |-> 5, chain |-> FALSE],  \* float result type
    [op |-> "OpShiftLeftLogical", type_id |-> 14, a |-> 12, b |-> 8, chain |-> FALSE], \* v2float result, vector amount
    [op |-> "OpShiftLeftLogical", type_id |-> UndeclaredType, a |-> 10, b |-> 5, chain |-> FALSE] }

Bodies == UNION { [1..n -> Kinds] : n \in 0..MaxInsts }

Return(n) == Inst("OpReturn", 0, 0, << >>, n)

\* The block holding body[lo..hi], then its terminator at node address ret.
MakeBlock(body, lo, hi, ret) ==
  [k \in 1..(hi - lo + 2) |->
     IF k = hi - lo + 2 THEN Return(ret)
     ELSE LET j == lo + k - 1
              kd == body[j]
              first == IF kd.chain /\ k > 1 THEN FirstLocalId + j - 2 ELSE kd.a
          IN Inst(kd.op, kd.type_id, FirstLocalId + j - 1, <<first, kd.b>>, j)]

Function(blocks) == [blocks |-> blocks]

\* Where a body is split: in the middle, or after its last instruction.
Splits(body) == {Len(body) \div 2, Len(body)}

\* The modules: the body split at p into two blocks of one function after a
\* declaration, or into two functions with a declaration between them.
MakeModule(body, p, shape) ==
  LET n == Len(body)
      b1 == MakeBlock(body, 1, p, n + 1)
      b2 == MakeBlock(body, p + 1, n, n + 2)
  IN IF shape = "blocks"
       THEN <<Function(<< >>), Function(<<b1, b2>>)>>
       ELSE <<Function(<<b1>>), Function(<< >>), Function(<<b2>>)>>

Init ==
  \E body \in Bodies : \E p \in Splits(body) : \E shape \in {"blocks", "funcs"} :
    /\ funcs = MakeModule(body, p, shape)
    /\ orig = funcs
    /\ types = InitTypes
    /\ consts = InitConsts
    /\ bound = FirstLocalId + Len(body)
    /\ max_id_bound \in {bound, bound + 2, kDefaultMaxIdBound}
    /\ next_node = Len(body) + 3
    /\ pc = "func"
    /\ fi = 1 /\ bi = 1 /\ ii = 1
    /\ modified = FALSE
    /\ scalar_modifications = 0
    /\ vector_modifications = 0
    /\ status = "Running"
    /\ log = << >>
    /\ runs = 1

\* ------------------------------------------- IRContext and its managers
\* The part of the IRContext the synthesizer reads and changes.
Context == [types |-> types, consts |-> consts, bound |-> bound]

Failed(c) == [id |-> 0, ctx |-> c]

\* IRContext::TakeNextId: 0 when the id bound has reached max_id_bound.
TakeNextId(c) ==
  IF c.bound >= max_id_bound THEN Failed(c)
  ELSE [id |-> c.bound, ctx |-> [c EXCEPT !.bound = @ + 1]]

\* TypeManager::GetTypeInstruction: the id that declares ty, declared with a
\* fresh id when the module has none (types are deduplicated).
GetTypeInstruction(c, ty) ==
  IF \E t \in DOMAIN c.types : c.types[t] = ty
    THEN [id |-> CHOOSE t \in DOMAIN c.types : c.types[t] = ty, ctx |-> c]
    ELSE LET r == TakeNextId(c)
         IN IF r.id = 0 THEN Failed(c)
            ELSE [id |-> r.id, ctx |-> [r.ctx EXCEPT !.types = @ @@ (r.id :> ty)]]

\* ConstantManager::GetConstant + GetDefiningInstruction: the id of the
\* constant k, declared with a fresh id when absent (deduplicated by type and
\* value).  A composite whose components are not declared constants is refused.
GetConstant(c, k) ==
  IF \E i \in 1..Len(k.comps) : k.comps[i] \notin DOMAIN c.consts THEN Failed(c)
  ELSE IF \E d \in DOMAIN c.consts : c.consts[d] = k
    THEN [id |-> CHOOSE d \in DOMAIN c.consts : c.consts[d] = k, ctx |-> c]
    ELSE LET r == TakeNextId(c)
         IN IF r.id = 0 THEN Failed(c)
            ELSE [id |-> r.id, ctx |-> [r.ctx EXCEPT !.consts = @ @@ (r.id :> k)]]

\* ConstantManager::GetSIntConstId / GetUIntConstId: they take a value and no
\* type; the constant is of the manager's own integer type of that signedness.
DefaultInt(signed) == IntegerType(32, signed)

GetIntConstId(c, signed, val) ==
  LET t == GetTypeInstruction(c, DefaultInt(signed))
  IN IF t.id = 0 THEN Failed(c) ELSE GetConstant(t.ctx, ScalarConstant(t.id, val))

GetSIntConstId(c, val) == GetIntConstId(c, TRUE, val)
GetUIntConstId(c, val) == GetIntConstId(c, FALSE, val)

\* ------------------------------------------------ the zero synthesizers
\* Mutant: the AsInteger() test is left out.
GetOrCreateConstantZero_AnyType(c, type_id) ==
  IF type_id \notin DOMAIN c.types THEN Failed(c)
  ELSE IF c.types[type_id].signed THEN GetSIntConstId(c, 0)
  ELSE GetUIntConstId(c, 0)

\* Mutant: the constant asked for is 1.
GetOrCreateConstantZero_One(c, type_id) ==
  IF type_id \notin DOMAIN c.types THEN Failed(c)
  ELSE IF c.types[type_id].kind # "Integer" THEN Failed(c)
  ELSE IF c.types[type_id].signed THEN GetSIntConstId(c, 1)
  ELSE GetUIntConstId(c, 1)

GetOrCreateConstantZero(c, type_id) ==
  IF type_id \notin DOMAIN c.types THEN Failed(c)
  ELSE IF c.types[type_id].kind # "Integer" THEN Failed(c)
  ELSE IF c.types[type_id].signed THEN GetSIntConstId(c, 0)
  ELSE GetUIntConstId(c, 0)

\* The loop that fills component_ids: n calls, each on the context the
\* previous one left.
RECURSIVE ComponentIds(_, _, _)
ComponentIds(c, signed, n) ==
  IF n = 0 THEN [ids |-> << >>, ctx |-> c]
  ELSE LET r == ComponentIds(c, signed, n - 1)
           z == IF signed THEN GetSIntConstId(r.ctx, 0) ELSE GetUIntConstId(r.ctx, 0)
       IN [ids |-> Append(r.ids, z.id), ctx |-> z.ctx]

GetOrCreateConstantZeroVector(c, type_id) ==
  IF type_id \notin DOMAIN c.types THEN Failed(c)
  ELSE LET vec_type == c.types[type_id]
       IN IF vec_type.kind # "Vector" THEN Failed(c)
          ELSE IF c.types[vec_type.elem].kind # "Integer" THEN Failed(c)
          ELSE LET cs == ComponentIds(c, c.types[vec_type.elem].signed, vec_type.count)
                   vt == GetTypeInstruction(cs.ctx, vec_type)
               IN IF vt.id = 0 THEN Failed(cs.ctx)
                  ELSE LET k == GetConstant(vt.ctx, CompositeConstant(vt.id, cs.ids))
                       IN IF k.id = 0 THEN Failed(vt.ctx) ELSE k

\* ------------------------------------------------------ candidate match
IsDeclaration(f) == f.blocks = << >>

\* ConstantManager::FindDeclaredConstant finds one
HasDeclaredConstant(cs, id) == id \in DOMAIN cs

\* inst->GetSingleWordInOperand(1)
shift_amount_id(inst) == inst.in_operands[2]

is_scalar(ts, cs, inst) == ts[cs[shift_amount_id(inst)].type].kind = "Integer"

is_vector(ts, cs, inst) ==
  LET t == ts[cs[shift_amount_id(inst)].type]
  IN t.kind = "Vector" /\ ts[t.elem].kind = "Integer"

\* The conditions of lines 176-193 under which Process() goes on to guard inst.
IsCandidate(ts, cs, inst) ==
  /\ inst.op = "OpShiftLeftLogical"
  /\ HasDeclaredConstant(cs, shift_amount_id(inst))
  /\ (is_scalar(ts, cs, inst) \/ is_vector(ts, cs, inst))

\* const_0_id of a candidate
Const0(c, inst) ==
  IF is_scalar(c.types, c.consts, inst)
    THEN GetOrCreateConstantZero(c, inst.type_id)
    ELSE GetOrCreateConstantZeroVector(c, inst.type_id)

\* ---------------------------------------------------------- Process()
CurBlock == funcs[fi].blocks[bi]
CurInst == CurBlock[ii]

\* InstructionBuilder::AddInstruction before position i of a block.
InsertBefore(block, i, inst) ==
  SubSeq(block, 1, i - 1) \o <<inst>> \o SubSeq(block, i, Len(block))

\* Mutant: the guard takes the temp id and reads the original one.
NoopBarrier_Swapped(type_id, result_id, temp_result_id, const_0_id, n) ==
  Inst("OpBitFieldInsert", type_id, temp_result_id,
       <<result_id, const_0_id, const_0_id, const_0_id>>, n)

\* The guard instruction of lines 218-224.
NoopBarrier(type_id, result_id, temp_result_id, const_0_id, n) ==
  Inst("OpBitFieldInsert", type_id, result_id,
       <<temp_result_id, const_0_id, const_0_id, const_0_id>>, n)

\* Mutant: SetResultId is left out.
GuardedBlock_NoRename(block, i, temp_result_id, const_0_id, n) ==
  LET inst == block[i]
  IN InsertBefore(block, i + 1,
       NoopBarrier(inst.type_id, inst.result_id, temp_result_id, const_0_id, n))

\* Mutant: the guard is stored over the node after the shift.
GuardedBlock_Overwrite(block, i, temp_result_id, const_0_id, n) ==
  LET inst == block[i]
      renamed == [block EXCEPT ![i].result_id = temp_result_id]
  IN [renamed EXCEPT ![i + 1] =
       NoopBarrier(inst.type_id, inst.result_id, temp_result_id, const_0_id, n)]

\* inst->SetResultId(temp_result_id), then the guard before inst->NextNode().
GuardedBlock(block, i, temp_result_id, const_0_id, n) ==
  LET inst == block[i]
      renamed == [block EXCEPT ![i].result_id = temp_result_id]
  IN InsertBefore(renamed, i + 1,
       NoopBarrier(inst.type_id, inst.result_id, temp_result_id, const_0_id, n))

Message(level, what, s, v) == [level |-> level, what |-> what, scalar |-> s, vector |-> v]

SetContext(c) ==
  /\ types' = c.types
  /\ consts' = c.consts
  /\ bound' = c.bound

Locals == <<modified, scalar_modifications, vector_modifications>>
Cursor == <<fi, bi, ii>>
Heap == <<funcs, next_node>>
Registry == <<types, consts, bound>>
Fixed == <<max_id_bound, runs, orig>>

\* for (auto& func : module): a declaration is skipped.
SkipDeclaration ==
  /\ pc = "func" /\ fi <= Len(funcs) /\ IsDeclaration(funcs[fi])
  /\ fi' = fi + 1
  /\ UNCHANGED <<bi, ii, pc, status, log, Locals, Heap, Registry, Fixed>>

EnterFunction ==
  /\ pc = "func" /\ fi <= Len(funcs) /\ ~IsDeclaration(funcs[fi])
  /\ bi' = 1 /\ pc' = "block"
  /\ UNCHANGED <<fi, ii, status, log, Locals, Heap, Registry, Fixed>>

EnterBlock ==
  /\ pc = "block" /\ bi <= Len(funcs[fi].blocks)
  /\ ii' = 1 /\ pc' = "inst"
  /\ UNCHANGED <<fi, bi, status, log, Locals, Heap, Registry, Fixed>>

\* block_itr == func.end()
LeaveFunction ==
  /\ pc = "block" /\ bi > Len(funcs[fi].blocks)
  /\ fi' = fi + 1 /\ pc' = "func"
  /\ UNCHANGED <<bi, ii, status, log, Locals, Heap, Registry, Fixed>>

\* inst_itr == block_itr->end()
LeaveBlock ==
  /\ pc = "inst" /\ ii > Len(CurBlock)
  /\ bi' = bi + 1 /\ pc' = "block"
  /\ UNCHANGED <<fi, ii, status, log, Locals, Heap, Registry, Fixed>>

Continue ==
  /\ ii' = ii + 1
  /\ UNCHANGED <<fi, bi, pc, status, log, Locals, Heap, Registry, Fixed>>

\* line 176
SkipNotShift ==
  /\ pc = "inst" /\ ii <= Len(CurBlock)
  /\ CurInst.op # "OpShiftLeftLogical"
  /\ Continue

\* line 183
SkipNotConstant ==
  /\ pc = "inst" /\ ii <= Len(CurBlock)
  /\ CurInst.op = "OpShiftLeftLogical"
  /\ ~HasDeclaredConstant(consts, shift_amount_id(CurInst))
  /\ Continue

\* line 193
SkipNotInteger ==
  /\ pc = "inst" /\ ii <= Len(CurBlock)
  /\ CurInst.op = "OpShiftLeftLogical"
  /\ HasDeclaredConstant(consts, shift_amount_id(CurInst))
  /\ ~is_scalar(types, consts, CurInst) /\ ~is_vector(types, consts, CurInst)
  /\ Continue

AtCandidate == pc = "inst" /\ ii <= Len(CurBlock) /\ IsCandidate(types, consts, CurInst)

\* lines 200-203
FailConstZero ==
  /\ AtCandidate
  /\ LET z == Const0(Context, CurInst)
     IN /\ z.id = 0
        /\ SetContext(z.ctx)
        /\ log' = Append(log, Message("error", "const_0_id", 0, 0))
        /\ status' = "Failure" /\ pc' = "done"
        /\ UNCHANGED <<Cursor, Locals, Heap, Fixed>>

\* Mutant: SetResultId runs before temp_result_id is tested.
FailTakeNextId_RenameFirst ==
  /\ AtCandidate
  /\ LET z == Const0(Context, CurInst)
         t == TakeNextId(z.ctx)
     IN /\ z.id # 0 /\ t.id = 0
        /\ SetContext(t.ctx)
        /\ funcs' = [funcs EXCEPT ![fi].blocks[bi][ii].result_id = t.id]
        /\ log' = Append(log, Message("error", "temp_result_id", 0, 0))
        /\ status' = "Failure" /\ pc' = "done"
        /\ UNCHANGED <<Cursor, Locals, next_node, Fixed>>

\* lines 206-211
FailTakeNextId ==
  /\ AtCandidate
  /\ LET z == Const0(Context, CurInst)
         t == TakeNextId(z.ctx)
     IN /\ z.id # 0 /\ t.id = 0
        /\ SetContext(t.ctx)
        /\ log' = Append(log, Message("error", "temp_result_id", 0, 0))
        /\ status' = "Failure" /\ pc' = "done"
        /\ UNCHANGED <<Cursor, Locals, Heap, Fixed>>

\* Mutant: the vector counter is bumped on both paths.
VectorCount_Always(n, scalar) == n + 1

\* lines 227-231
ScalarCount(n, scalar) == IF scalar THEN n + 1 ELSE n
VectorCount(n, scalar) == IF scalar THEN n ELSE n + 1

\* lines 212-231, then ++inst_itr; inst->NextNode() is an instruction.
Rewrite ==
  /\ AtCandidate /\ ii < Len(CurBlock)
  /\ LET z == Const0(Context, CurInst)
         t == TakeNextId(z.ctx)
     IN /\ z.id # 0 /\ t.id # 0
        /\ SetContext(t.ctx)
        /\ funcs' = [funcs EXCEPT ![fi].blocks[bi] =
                       GuardedBlock(@, ii, t.id, z.id, next_node)]
        /\ next_node' = next_node + 1
        /\ modified' = TRUE
        /\ scalar_modifications' = ScalarCount(scalar_modifications, is_scalar(types, consts, CurInst))
        /\ vector_modifications' = VectorCount(vector_modifications, is_scalar(types, consts, CurInst))
        /\ ii' = ii + 1
        /\ UNCHANGED <<fi, bi, pc, status, log, Fixed>>

\* Mutant: the run reports a change whether or not it made one.
ResultStatus_Changed(m) == "SuccessWithChange"

\* line 241
ResultStatus(m) == IF m THEN "SuccessWithChange" ELSE "SuccessWithoutChange"

\* lines 236-241
Finish ==
  /\ pc = "func" /\ fi > Len(funcs)
  /\ log' = IF modified
              THEN Append(log, Message("info", "summary",
                                       scalar_modifications, vector_modifications))
              ELSE log
  /\ status' = ResultStatus(modified)
  /\ pc' = "done"
  /\ UNCHANGED <<Cursor, Locals, Heap, Registry, Fixed>>

\* The pass is run again on the module the last run left (lines 160-166).
RunAgain ==
  /\ pc = "done" /\ runs < MaxRuns
  /\ runs' = runs + 1
  /\ orig' = funcs
  /\ pc' = "func"
  /\ fi' = 1 /\ bi' = 1 /\ ii' = 1
  /\ modified' = FALSE
  /\ scalar_modifications' = 0
  /\ vector_modifications' = 0
  /\ status' = "Running"
  /\ log' = << >>
  /\ UNCHANGED <<Heap, Registry, max_id_bound>>

Next ==
  \/ SkipDeclaration \/ EnterFunction \/ EnterBlock \/ LeaveFunction \/ LeaveBlock
  \/ SkipNotShift \/ SkipNotConstant \/ SkipNotInteger
  \/ FailConstZero \/ FailTakeNextId \/ Rewrite
  \/ Finish \/ RunAgain

Spec == Init /\ [][Next]_vars

\* ------------------------------------------- blocks without a terminator
\* The module with the last instruction of every block removed.
Unterminated(fs) ==
  [f \in 1..Len(fs) |->
     Function([b \in 1..Len(fs[f].blocks) |->
                 SubSeq(fs[f].blocks[b], 1, Len(fs[f].blocks[b]) - 1)])]

\* The input modules, and the same modules built without their OpReturn, so
\* that a shift can be the last instruction of its block.
InitUnterminated ==
  \E body \in Bodies : \E p \in Splits(body) : \E shape \in {"blocks", "funcs"} :
    /\ funcs \in {MakeModule(body, p, shape), Unterminated(MakeModule(body, p, shape))}
    /\ orig = funcs
    /\ types = InitTypes
    /\ consts = InitConsts
    /\ bound = FirstLocalId + Len(body)
    /\ max_id_bound \in {bound, bound + 2, kDefaultMaxIdBound}
    /\ next_node = Len(body) + 3
    /\ pc = "func"
    /\ fi = 1 /\ bi = 1 /\ ii = 1
    /\ modified = FALSE
    /\ scalar_modifications = 0
    /\ vector_modifications = 0
    /\ status = "Running"
    /\ log = << >>
    /\ runs = 1

\* lines 212-225 when the shift is the last instruction of its block:
\* inst->NextNode() is null, the builder's insertion point is a null node and
\* AddInstruction links the guard before it, which dereferences the null
\* node; Process() does not return.  The shift is already renamed.
InsertBeforeNull ==
  /\ AtCandidate /\ ii = Len(CurBlock)
  /\ LET z == Const0(Context, CurInst)
         t == TakeNextId(z.ctx)
     IN /\ z.id # 0 /\ t.id # 0
        /\ SetContext(t.ctx)
        /\ funcs' = [funcs EXCEPT ![fi].blocks[bi][ii].result_id = t.id]
        /\ pc' = "crash"
        /\ UNCHANGED <<Cursor, Locals, next_node, status, log, Fixed>>

NextUnterminated == Next \/ InsertBeforeNull

SpecUnterminated == InitUnterminated /\ [][NextUnterminated]_vars

\* ------------------------------------------------------------ vocabulary
Success == {"SuccessWithChange", "SuccessWithoutChange"}

\* Positions <<f, b, i>> of the instructions of a module.
Positions(fs) ==
  UNION { UNION { { <<f, b, i>> : i \in 1..Len(fs[f].blocks[b]) } :
                  b \in 1..Len(fs[f].blocks) } : f \in 1..Len(fs) }

At(fs, p) == fs[p[1]].blocks[p[2]][p[3]]

Nodes(fs) == { At(fs, p).node : p \in Positions(fs) }

\* Where the instruction at node address n is now.
Where(fs, n) == CHOOSE p \in Positions(fs) : At(fs, p).node = n

\* The instructions added during the current run.
Added ==
  LET old == Nodes(orig)
  IN { p \in Positions(funcs) : At(funcs, p).node \notin old }

\* Ids declared in the global section.
GlobalIds == DOMAIN types \cup DOMAIN consts \cup GlobalValues

\* The shift amount is a declared constant of integer or integer vector type.
ShiftByIntConstant(inst) ==
  /\ inst.op = "OpShiftLeftLogical"
  /\ inst.in_operands[2] \in DOMAIN consts
  /\ LET t == types[consts[inst.in_operands[2]].type]
     IN \/ t.kind = "Integer"
        \/ t.kind = "Vector" /\ types[t.elem].kind = "Integer"

ShiftByScalar(inst) ==
  ShiftByIntConstant(inst) /\ types[consts[inst.in_operands[2]].type].kind = "Integer"

Matched(fs) == { p \in Positions(fs) : ShiftByIntConstant(At(fs, p)) }

\* p is scanned before q.
Before(p, q) ==
  \/ p[1] < q[1]
  \/ p[1] = q[1] /\ p[2] < q[2]
  \/ p[1] = q[1] /\ p[2] = q[2] /\ p[3] < q[3]

IsGuardOf(g, shift, type_id, result_id) ==
  /\ g.op = "OpBitFieldInsert"
  /\ g.type_id = type_id
  /\ g.result_id = result_id
  /\ Len(g.in_operands) = 4
  /\ g.in_operands[1] = shift.result_id
  /\ g.in_operands[2] \in DOMAIN consts
  /\ g.in_operands[3] = g.in_operands[2]
  /\ g.in_operands[4] = g.in_operands[2]

\* The instruction that was o when the run began has been guarded: it defines
\* a new id and the instruction after it is a new guard defining o's id.
Guarded(o) ==
  LET p == Where(funcs, o.node)
      s == At(funcs, p)
      q == <<p[1], p[2], p[3] + 1>>
  IN /\ s = [o EXCEPT !.result_id = s.result_id]
     /\ s.result_id # o.result_id
     /\ q \in Added
     /\ IsGuardOf(At(funcs, q), s, o.type_id, o.result_id)

ResultIds(fs) == { At(fs, p).result_id : p \in Positions(fs) } \ {0}

\* ------------------------------------------------------------------- C1
\* C1: after a run that does not report failure, every shift of the input
\* whose shift amount is a declared integer or integer vector constant defines
\* a fresh id with opcode, type and operands unchanged, and exactly one new
\* OpBitFieldInsert follows it immediately, with the shift's original result
\* type and result id and the operands (temp, zero, zero, zero), zero being
\* the synthesized zero constant.
C1_Targeting ==
  (pc = "done" /\ status \in Success) =>
    \A p \in Matched(orig) :
      LET o == At(orig, p)
          w == Where(funcs, o.node)
          s == At(funcs, w)
          g == At(funcs, <<w[1], w[2], w[3] + 1>>)
          after == <<w[1], w[2], w[3] + 2>>
      IN /\ w[1] = p[1] /\ w[2] = p[2]
         /\ Guarded(o)
         /\ s.result_id \notin ResultIds(orig) \cup GlobalIds
         /\ g.in_operands[2] = Const0(Context, o).id
         /\ after \notin Added

C1_Witness ==
  /\ pc = "done" /\ status = "SuccessWithChange"
  /\ \E p, q \in Matched(orig) : ShiftByScalar(At(orig, p)) /\ ~ShiftByScalar(At(orig, q))

\* ------------------------------------------------------------------- C2
\* The node addresses of a block, in list order.
NodeSeq(block) == [i \in 1..Len(block) |-> block[i].node]

\* The block without the instructions added during the current run.
WithoutAdded(block) ==
  LET old == Nodes(orig)
      IsOrigNode(inst) == inst.node \in old
  IN SelectSeq(block, IsOrigNode)

\* C2: at every point of a run, the instructions that are not matched
\* candidates (shifts by something other than a declared integer or integer
\* vector constant, other opcodes) are exactly as they were, they add nothing
\* to the counters, and no instruction of the input is deleted or reordered
\* within its block.
C2_Frame ==
  LET now == { At(funcs, p) : p \in Positions(funcs) }
      matched == Matched(orig)
  IN /\ Len(funcs) = Len(orig)
     /\ \A f \in 1..Len(orig) :
          /\ Len(funcs[f].blocks) = Len(orig[f].blocks)
          /\ IsDeclaration(orig[f]) => funcs[f] = orig[f]
          /\ \A b \in 1..Len(orig[f].blocks) :
               NodeSeq(WithoutAdded(funcs[f].blocks[b])) = NodeSeq(orig[f].blocks[b])
     /\ \A p \in Positions(orig) \ matched : At(orig, p) \in now
     /\ scalar_modifications + vector_modifications =
          Cardinality({ p \in matched : At(orig, p) \notin now })

C2_Witness ==
  /\ pc = "done" /\ status = "SuccessWithChange"
  /\ \E p, q \in Positions(orig) :
       /\ p[1] = q[1] /\ p[2] = q[2] /\ p[3] < q[3]
       /\ p \in Matched(orig)
       /\ At(orig, q).op = "OpShiftLeftLogical" /\ q \notin Matched(orig)

\* ------------------------------------------------------------------- C3
\* No id has two defining instructions.
UniqueDefinitions ==
  LET defining == { p \in Positions(funcs) : At(funcs, p).result_id # 0 }
      ids == ResultIds(funcs)
  IN /\ Cardinality(ids) = Cardinality(defining)
     /\ ids \cap GlobalIds = {}
     /\ DOMAIN types \cap DOMAIN consts = {}
     /\ (DOMAIN types \cup DOMAIN consts) \cap GlobalValues = {}
     /\ \A id \in ids \cup GlobalIds : id < bound

\* Every operand is defined globally or earlier in the block.
UsesFollowDefinitions ==
  LET global == GlobalIds
  IN \A p \in Positions(funcs) :
       \A k \in 1..Len(At(funcs, p).in_operands) :
         LET id == At(funcs, p).in_operands[k]
         IN \/ id \in global
            \/ \E j \in 1..(p[3] - 1) : At(funcs, <<p[1], p[2], j>>).result_id = id

\* C3: in every state of every run, failed runs included, each id has one
\* definition and each operand is defined globally or earlier in its block.
C3_SingleDefinition == UniqueDefinitions /\ UsesFollowDefinitions

\* A second run has failed on a module in which the first run guarded a shift
\* whose original id a later instruction of the block reads.
C3_Witness ==
  /\ runs = 2 /\ status = "Failure"
  /\ \E p, q \in Positions(funcs) :
       /\ p[1] = q[1] /\ p[2] = q[2] /\ p[3] < q[3]
       /\ At(funcs, p).op = "OpBitFieldInsert"
       /\ At(funcs, q).op # "OpBitFieldInsert"
       /\ At(funcs, p).result_id \in { At(funcs, q).in_operands[k] : k \in 1..Len(At(funcs, q).in_operands) }

\* ------------------------------------------------------------------- C4
\* In context c, constant id z is the zero of type id t: a scalar integer zero
\* whose type is t, or a vector of type t with one scalar zero of t's element
\* type per component.
IsZeroOfType(c, z, t) ==
  /\ z \in DOMAIN c.consts
  /\ t \in DOMAIN c.types
  /\ c.consts[z].type = t
  /\ \/ /\ c.types[t].kind = "Integer"
        /\ c.consts[z] = ScalarConstant(t, 0)
     \/ /\ c.types[t].kind = "Vector"
        /\ Len(c.consts[z].comps) = c.types[t].count
        /\ \A k \in 1..Len(c.consts[z].comps) :
             /\ c.consts[z].comps[k] \in DOMAIN c.consts
             /\ c.consts[c.consts[z].comps[k]] = ScalarConstant(c.types[t].elem, 0)

\* C4: whenever the synthesizer returns a non-zero id for the result type T of
\* the candidate under the cursor, that constant is the zero of exactly T
\* (same signedness, same width; per component on the vector path).
C4_ZeroHasResultType ==
  AtCandidate =>
    LET z == Const0(Context, CurInst)
    IN z.id # 0 => IsZeroOfType(z.ctx, z.id, CurInst.type_id)

\* ------------------------------------------------------------------- C5
\* A value of an integer type of width w is the set of its one bits.
Bits(v) == { i \in 0..4 : (v \div (2 ^ i)) % 2 = 1 }

\* OpShiftLeftLogical on a width-w value.
ShiftLeftLogical(value, amount, w) == { b + amount : b \in value } \cap (0..(w - 1))

\* OpBitFieldInsert: count bits of base at offset are replaced by the low
\* count bits of insert.
BitFieldInsert(base, insert, offset, count, w) ==
  { b \in base : b < offset \/ b >= offset + count }
    \cup ({ b + offset : b \in { x \in insert : x < count } } \cap (0..(w - 1)))

TestValues(w) == { {}, {0}, {w - 1}, {0, w - 1}, 0..(w - 1), {1, 2}, {w - 2} }

\* The literal of constant id in component k (a scalar has that value in
\* every component).
LaneValue(id, k) ==
  IF consts[id].comps = << >> THEN consts[id].value ELSE consts[consts[id].comps[k]].value

\* The shift a chain of guards follows.
RECURSIVE ShiftBefore(_, _)
ShiftBefore(block, i) ==
  IF block[i].op = "OpShiftLeftLogical" THEN block[i] ELSE ShiftBefore(block, i - 1)

Guards == { p \in Positions(funcs) : At(funcs, p).op = "OpBitFieldInsert" }

\* C5: the guard is the identity on the shifted value: for every guard, every
\* component, and every value v of the result type's width, inserting the
\* guard's insert operand at its offset and count operands into v << amount
\* gives v << amount.
C5_ValuePreserved ==
  \A p \in Guards :
    LET g == At(funcs, p)
        sh == ShiftBefore(funcs[p[1]].blocks[p[2]], p[3])
        t == types[g.type_id]
        lanes == IF t.kind = "Vector" THEN t.count ELSE 1
        w == IF t.kind = "Vector" THEN types[t.elem].width ELSE t.width
    IN \A k \in 1..lanes : \A v \in TestValues(w) :
         LET temp == ShiftLeftLogical(v, LaneValue(sh.in_operands[2], k), w)
         IN BitFieldInsert(temp, Bits(LaneValue(g.in_operands[2], k)),
                           LaneValue(g.in_operands[3], k),
                           LaneValue(g.in_operands[4], k), w) = temp

\* Guards of a signed 16-bit, an unsigned 32-bit and a vector shift exist.
C5_Witness ==
  /\ \E p \in Guards : types[At(funcs, p).type_id] = IntegerType(16, TRUE)
  /\ \E p \in Guards : types[At(funcs, p).type_id].kind = "Vector"

\* ------------------------------------------------------------------- C6
ScanFinished == fi > Len(funcs)

\* The cursor rests on a candidate for which the zero synthesis or the id
\* allocation returns 0.
StoppedOnFailure ==
  /\ ~ScanFinished
  /\ bi <= Len(funcs[fi].blocks) /\ ii <= Len(CurBlock)
  /\ ShiftByIntConstant(CurInst)
  /\ LET z == Const0(Context, CurInst)
     IN z.id = 0 \/ TakeNextId(z.ctx).id = 0

\* C6: a run ends in exactly one of three outcomes: unchanged iff the scan
\* finished and the input held no candidate (the module is then the input),
\* changed iff the scan finished and a guard was added, failed iff the scan
\* stopped on a candidate whose zero synthesis or id allocation returned 0.
C6_Outcomes ==
  /\ (pc = "done") <=> (status # "Running")
  /\ status \in {"Running", "SuccessWithChange", "SuccessWithoutChange", "Failure"}
  /\ pc = "done" =>
       /\ (status = "SuccessWithoutChange") <=> (ScanFinished /\ Matched(orig) = {})
       /\ (status = "SuccessWithoutChange") => funcs = orig
       /\ (status = "SuccessWithChange") <=> (ScanFinished /\ Added # {})
       /\ (status = "Failure") <=> StoppedOnFailure

\* A run failed after it had guarded an earlier candidate.
C6_Witness == pc = "done" /\ status = "Failure" /\ Added # {}

\* ------------------------------------------------------------------- C7
\* Where the instruction under the cursor was when the run began.
FailedAt == Where(orig, CurInst.node)

\* The candidates of the input scanned before the one that failed.
EarlierCandidates == { p \in Matched(orig) : Before(p, FailedAt) }

\* C7: when a run fails on the k-th candidate, the module is the input with
\* the first k-1 candidates guarded and nothing else changed: the failing
\* shift is as it was with no guard after it, and everything from it on in
\* scan order is the input's.
C7_AbortKeepsEarlierRewrites ==
  status = "Failure" =>
    /\ CurInst = At(orig, FailedAt)
    /\ FailedAt[1] = fi /\ FailedAt[2] = bi
    /\ SubSeq(CurBlock, ii, Len(CurBlock)) =
         SubSeq(orig[fi].blocks[bi], FailedAt[3], Len(orig[fi].blocks[bi]))
    /\ \A b \in (bi + 1)..Len(funcs[fi].blocks) : funcs[fi].blocks[b] = orig[fi].blocks[b]
    /\ \A f \in (fi + 1)..Len(funcs) : funcs[f] = orig[f]
    /\ \A p \in EarlierCandidates :
         /\ Guarded(At(orig, p))
         /\ LET w == Where(funcs, At(orig, p).node)
            IN <<w[1], w[2], w[3] + 2>> \notin Added
    /\ \A p \in Positions(orig) \ EarlierCandidates :
         At(funcs, Where(funcs, At(orig, p).node)) = At(orig, p)
    /\ Cardinality(Added) = Cardinality(EarlierCandidates)
    /\ \A f \in 1..Len(orig) : \A b \in 1..Len(orig[f].blocks) :
         NodeSeq(WithoutAdded(funcs[f].blocks[b])) = NodeSeq(orig[f].blocks[b])

\* The id allocation failed on the second candidate of a block, after the
\* first had been guarded.
C7_Witness ==
  /\ status = "Failure"
  /\ EarlierCandidates # {}
  /\ Const0(Context, CurInst).id # 0
  /\ \E p \in EarlierCandidates : p[1] = fi /\ p[2] = bi

\* ------------------------------------------------------------------- C8
\* The candidate's result type does not resolve, or is not what the path its
\* shift amount selects supports.
UnsupportedResultType(inst) ==
  \/ inst.type_id \notin DOMAIN types
  \/ /\ ShiftByScalar(inst)
     /\ types[inst.type_id].kind # "Integer"
  \/ /\ ~ShiftByScalar(inst)
     /\ \/ types[inst.type_id].kind # "Vector"
        \/ types[types[inst.type_id].elem].kind # "Integer"

\* C8 as claimed: a candidate whose result type does not resolve or is not
\* supported is left unguarded, the scan goes on to the next instruction and
\* the pass does not report failure.
C8_RecoveredLocally ==
  [][(AtCandidate /\ UnsupportedResultType(CurInst)) =>
       (status' = "Running" /\ pc' = "inst" /\ ii' = ii + 1 /\ funcs' = funcs)]_vars

\* C8 amended: such a candidate is left unguarded and no id is allocated for
\* it, but the scan stops at it and the pass reports failure.
C8_TypeFailureAborts ==
  [][(AtCandidate /\ UnsupportedResultType(CurInst)) =>
       /\ status' = "Failure" /\ pc' = "done"
       /\ funcs' = funcs
       /\ UNCHANGED <<Cursor, Registry, Locals>>]_vars

\* A run has stopped on a scalar-result shift by a vector constant.
C8_Witness ==
  /\ status = "Failure"
  /\ ~ScanFinished /\ ShiftByIntConstant(CurInst)
  /\ UnsupportedResultType(CurInst)
  /\ ~ShiftByScalar(CurInst)

\* ------------------------------------------------------------------- C9
\* The instruction before position q of its block.
Pred(q) == At(funcs, <<q[1], q[2], q[3] - 1>>)

ScalarGuards == { q \in Added : ShiftByScalar(Pred(q)) }
VectorGuards == Added \ ScalarGuards

Summaries == { k \in 1..Len(log) : log[k].what = "summary" }

\* C9: at every point of a run the scalar counter is the number of guards
\* added so far after shifts by an integer constant and the vector counter the
\* number added after shifts by an integer vector constant; the summary with
\* the two counts is emitted exactly when the run ends changed.
C9_Reporting ==
  LET added == Added
      scalar == Cardinality(ScalarGuards)
      vector == Cardinality(added) - scalar
  IN /\ scalar_modifications = scalar
     /\ vector_modifications = vector
     /\ vector = Cardinality(VectorGuards)
     /\ \A q \in added : At(funcs, q).op = "OpBitFieldInsert"
     /\ (Summaries # {}) <=> (status = "SuccessWithChange")
     /\ status = "SuccessWithChange" =>
          log = <<Message("info", "summary", scalar, vector)>>

C9_Witness ==
  /\ status = "SuccessWithChange"
  /\ scalar_modifications = 1 /\ vector_modifications = 1

\* ------------------------------------------------------------------ C10
\* The result id the instruction at node address n has in the input module.
InputResultId(n) == FirstLocalId + n - 1

\* C10: after n runs, the last of them successful, over a module with m
\* matching shifts the module holds n * m guards and the run reports a change
\* when m > 0; each matching shift defines a temp allocated by the last run
\* and is followed by n guards, the first defining the previous run's temp,
\* each reading the id the instruction directly before it defines, the last
\* defining the shift's id in the input module.
C10_NotIdempotent ==
  (pc = "done" /\ status \in Success) =>
    /\ Cardinality(Matched(funcs)) = Cardinality(Matched(orig))
    /\ Cardinality(Guards) = runs * Cardinality(Matched(funcs))
    /\ Matched(funcs) # {} => status = "SuccessWithChange"
    /\ \A p \in Matched(funcs) :
         LET s == At(funcs, p)
             block == funcs[p[1]].blocks[p[2]]
         IN /\ p[3] + runs <= Len(block)
            /\ s.result_id \notin ResultIds(orig)
            /\ block[p[3] + 1].result_id = At(orig, Where(orig, s.node)).result_id
            /\ block[p[3] + runs].result_id = InputResultId(s.node)
            /\ \A k \in 1..runs :
                 /\ block[p[3] + k].op = "OpBitFieldInsert"
                 /\ block[p[3] + k].type_id = s.type_id
                 /\ block[p[3] + k].in_operands[1] = block[p[3] + k - 1].result_id
            /\ (p[3] + runs + 1 <= Len(block)) => block[p[3] + runs + 1].op # "OpBitFieldInsert"

\* Two runs over a module with two matching shifts have both succeeded.
C10_Witness ==
  /\ pc = "done" /\ status = "SuccessWithChange"
  /\ runs = 2
  /\ Cardinality(Matched(funcs)) = 2
  /\ Cardinality(Guards) = 4

\* ------------------------------------------------------------------- C11
\* The loop body is about to run on the instruction under inst_itr.
Visiting == pc = "inst" /\ ii <= Len(CurBlock)

\* C11: the scan only ever visits instructions that existed when the run
\* began - an instruction inserted during the run (a guard) is never under
\* the cursor, which after a rewrite rests on the pre-existing instruction
\* that followed the shift (or on the end of the block) - and this holds
\* also for a matched shift that is the last instruction of its block: the
\* scan is never cut short there.
C11_ScanSkipsInsertedGuards ==
  /\ Visiting => CurInst.node \in Nodes(orig)
  /\ pc # "crash"

\* The two ways the scan departs from it: the cursor on a guard of this run,
\* and the scan lost at a matched shift that ends its block.
C11_GuardVisited == Visiting /\ CurInst.node \notin Nodes(orig) /\ CurInst.op = "OpBitFieldInsert"
C11_LostAtLastShift == pc = "crash" /\ ii = Len(CurBlock) /\ CurInst.op = "OpShiftLeftLogical"
====
